---------------------------- MODULE Spec2Model ----------------------------
(***************************************************************************)
(* A model of the LC2K debugger runtime, src/src/mockRuntime.ts (class     *)
(* MockRuntime): the loader (initializeContents), the interpreter          *)
(* (executeLine, executeRType, executeJType, executeOType) and the         *)
(* controller (start, continue, step, updateCurrentLine,                   *)
(* findNextStatement, the breakpoint tables).                              *)
(*                                                                         *)
(* JavaScript numbers are kept as two limbs of 16 bits (TLC's integers     *)
(* are 32 bits wide and the runtime's values reach 2^32 and beyond), next  *)
(* to the two non-numbers a register can hold: undefined and NaN.          *)
(* A source line is its leading character class, its first token and the  *)
(* whitespace-separated tokens after it; the regular expressions of the    *)
(* runtime are decided on these tokens.                                    *)
(***************************************************************************)
EXTENDS Integers, Sequences, FiniteSets, TLC

(***************************************************************************)
(* JavaScript values                                                       *)
(***************************************************************************)
Base == 2^16
Half == 2^15

Num(hi, lo) == [t |-> "num", hi |-> hi, lo |-> lo]
undefined == [t |-> "undefined", hi |-> 0, lo |-> 0]
NaN == [t |-> "NaN", hi |-> 0, lo |-> 0]

\* the JavaScript number of a (small) integer
I(i) == Num(i \div Base, i % Base)

IsNum(v) == v.t = "num"
\* a number whose value fits a line index or a register index of the model
IsSmall(v) == IsNum(v) /\ v.hi \in {-1, 0}
AsInt(v) == v.hi * Base + v.lo

\* Number(x)
ToNumber(v) == IF IsNum(v) THEN v ELSE NaN

\* x + y on numbers and undefined
Plus(a, b) ==
    IF ~IsNum(a) \/ ~IsNum(b) THEN NaN
    ELSE LET s == a.lo + b.lo IN Num(a.hi + b.hi + (s \div Base), s % Base)

\* x - 1, x + 1
Minus1(a) == Plus(a, I(-1))
Plus1(a) == Plus(a, I(1))

\* x < y: false when either side is not a number
Lt(a, b) ==
    /\ IsNum(a)
    /\ IsNum(b)
    /\ \/ a.hi < b.hi
       \/ a.hi = b.hi /\ a.lo < b.lo

\* x === y
StrictEq(a, b) == a.t # "NaN" /\ a = b

\* ToInt32 of the ECMAScript bitwise operators: NaN and undefined give 0
ToInt32(v) ==
    IF ~IsNum(v) THEN I(0)
    ELSE LET h == v.hi % Base
         IN  Num(IF h >= Half THEN h - Base ELSE h, v.lo)

RECURSIVE Or16(_, _, _)
Or16(x, y, n) ==
    IF n = 0 THEN 0
    ELSE (IF (x % 2 = 1) \/ (y % 2 = 1) THEN 1 ELSE 0)
         + 2 * Or16(x \div 2, y \div 2, n - 1)

RECURSIVE And16(_, _, _)
And16(x, y, n) ==
    IF n = 0 THEN 0
    ELSE (IF (x % 2 = 1) /\ (y % 2 = 1) THEN 1 ELSE 0)
         + 2 * And16(x \div 2, y \div 2, n - 1)

Signed(h, l) == Num(IF h >= Half THEN h - Base ELSE h, l)

\* x | y
BitOr(a, b) ==
    LET x == ToInt32(a)
        y == ToInt32(b)
    IN  Signed(Or16(x.hi % Base, y.hi % Base, 16), Or16(x.lo, y.lo, 16))

\* x & y
BitAnd(a, b) ==
    LET x == ToInt32(a)
        y == ToInt32(b)
    IN  Signed(And16(x.hi % Base, y.hi % Base, 16), And16(x.lo, y.lo, 16))

\* ~x
BitNot(a) ==
    LET x == ToInt32(a) IN Num(-1 - x.hi, Base - 1 - x.lo)

\* the literal 0xFFFFFFFF
MASK32 == Num(Base - 1, Base - 1)

(***************************************************************************)
(* Source text: tokens and lines                                           *)
(***************************************************************************)
\* Number(token) on the decimal numerals the model's programs are written
\* with; NaN for a token that is no numeral
NumberOf(s) ==
    CASE s = "0" -> I(0) [] s = "1" -> I(1) [] s = "2" -> I(2)
      [] s = "3" -> I(3) [] s = "4" -> I(4) [] s = "5" -> I(5)
      [] s = "6" -> I(6) [] s = "7" -> I(7) [] s = "8" -> I(8)
      [] s = "9" -> I(9) [] s = "10" -> I(10) [] s = "-1" -> I(-1)
      [] s = "-2" -> I(-2) [] s = "255" -> I(255) [] s = "256" -> I(256)
      [] s = "300" -> I(300)
      [] s = "2147483647" -> Num(Half - 1, Base - 1)
      [] s = "-2147483648" -> Num(-Half, 0)
      [] s = "4294967295" -> Num(Base - 1, Base - 1)
      [] s = "1431655765" -> Num(21845, 21845)
      [] OTHER -> NaN
\* parseInt(token): on decimal numerals it agrees with Number
parseInt(s) == NumberOf(s)
\* !isNaN(Number(token))
IsNumeric(s) == NumberOf(s).t # "NaN"

\* the tokens /\$([a-z][a-z0-9]*)(=(...))?/ig finds an access in
DollarTokens == {"$x", "$x=1", "$mem", "$mem=1"}
DollarName(s) == IF s \in {"$x", "$x=1"} THEN "x" ELSE "mem"
DollarHasValue(s) == s \in {"$x=1", "$mem=1"}
\* the tokens containing 'exception'; the second matches /exception\((.*)\)/
ExceptionTokens == {"exception", "exception(E)"}
NamedExceptionTokens == {"exception(E)"}
ExceptionName(s) == "E"
\* the tokens containing 'lazy'
LazyTokens == {"lazy"}
\* the first tokens a line begins with '+' or with '-' by
PlusLabels == {"+"}
MinusLabels == {"-"}

\* the tokens of the sample program's comments with no letter, and with two
\* runs of letters
WordlessTokens == {"1-1", "2-1", "2=0,", "2=1,"}
TwoWordTokens == {"value=return", "value+return", "r6=return"}

\* the number of /[a-z]+/ig words in a token
WordCount(s) ==
    IF IsNumeric(s) \/ s \in {""} \cup PlusLabels \cup MinusLabels THEN 0
    ELSE IF s \in WordlessTokens THEN 0
    ELSE IF s \in NamedExceptionTokens \cup TwoWordTokens THEN 2
    ELSE 1

\* a line: lead is "tab" (the line begins with a tab), "sp" (with a blank)
\* or "" (with the token label); toks are the tokens after the first gap
T(toks) == [lead |-> "tab", label |-> "", toks |-> toks]
S(toks) == [lead |-> "sp", label |-> "", toks |-> toks]
L(label, toks) == [lead |-> "", label |-> label, toks |-> toks]
Blank == [lead |-> "", label |-> "", toks |-> <<>>]

\* line.length
LineLength(line) == IF line = Blank THEN 0 ELSE 1
AllTokens(line) ==
    (IF line.label # "" THEN <<line.label>> ELSE <<>>) \o line.toks

ROps == {"add", "nor", "lw", "sw", "beq"}
\* /^([^\s]*)\s/
SEP_REGEXP(line) == line.lead # "" \/ line.toks # <<>>
\* /^([^\s]*)\s+(\.fill)\s+([^\s]+)(\s+)?(.*)?/
FILL_REGEX(line) == Len(line.toks) >= 2 /\ line.toks[1] = ".fill"
\* /^([^\s]*)\s+(add|nor|lw|sw|beq)\s+([^\s]*)\s+([^\s]*)\s+([^\s]*)(\s+)?(.*)?/
R_INST_REGEX(line) == Len(line.toks) >= 4 /\ line.toks[1] \in ROps
\* /^([^\s]*)\s+(jalr)\s+([^\s]+)\s+([^\s]+)(\s+)?(.*)?/
J_INST_REGEX(line) == Len(line.toks) >= 3 /\ line.toks[1] = "jalr"
\* /^([^\s]*)\s+(halt|noop)(\s+)?(.*)?/
O_INST_REGEX(line) == Len(line.toks) >= 1 /\ line.toks[1] \in {"halt", "noop"}

RECURSIVE SumWords(_)
SumWords(toks) ==
    IF toks = <<>> THEN 0 ELSE WordCount(Head(toks)) + SumWords(Tail(toks))
\* getWords(l, line).length
getWords(line) == SumWords(AllTokens(line))

(***************************************************************************)
(* The runtime's state                                                     *)
(***************************************************************************)
VARIABLES prog,             \* the lines of the program file on disk
    reading,                \* a readFile of loadSource is begun and not finished
    sourceFile,             \* _sourceFile: "" until a load was started
    sourceLines,            \* the lines of the loaded file
    labels,                 \* the label table, in push order
    starts, ends,           \* per line, its first and last instruction unit
    regs,                   \* variables 'reg N': key N |-> value
    mem,                    \* variable 'mem': the array, or a scalar once overwritten
    extras,                 \* the other names of the variables map
    currentLine,            \* _currentLine
    instruction,
    breakPoints,            \* the source breakpoints of the file, in push order
    breakpointId,
    instructionBreakpoints,
    breakAddresses,         \* data breakpoints: name |-> access type
    namedException, otherExceptions,
    mode,                   \* "idle", or "running" inside continue()'s loop
    events,                 \* the events sent since the running call began
    threw,                  \* the last call ended by throwing a host error
    calls,                  \* the number of breakpoint and filter calls made
    pending,                \* the arguments of the start() call in progress
    loadAborted,            \* initializeContents returned at 'Label ... not found'
    halted,                 \* halt has been executed
    last,                   \* the line executed last, with the state before it
    prev,                   \* the line executed before last
    stops,                  \* the breakpoint events sent so far, each with the
                            \* line, the address or the breakpoint id it names
    registered,             \* name |-> the access types setDataBreakpoint was
                            \* called with for it since the last clear
    listening,              \* a listener is attached to the runtime's events
    timers,                 \* the setTimeout(..., 0) callbacks not yet run, oldest
                            \* first: the notes they will emit
    received                \* the note the listener received last

vars == <<prog, reading, sourceFile, sourceLines, labels, starts, ends, regs, mem,
          extras, currentLine, instruction, breakPoints, breakpointId,
          instructionBreakpoints, breakAddresses, registered, namedException,
          otherExceptions, mode, events, threw, calls, pending, loadAborted,
          halted,
          last, prev, stops, listening, timers, received>>

\* F applied to the value of v, which is computed once: the statements of a
\* method run one after the other, each on the state the one before it left
Then(v, F(_)) == CHOOSE r \in {F(x) : x \in {v}} : TRUE

\* the registers the constructor creates
NumRegs == 8
\* the cells the constructor creates, all 0
MemSize == 256

RegKeys == {I(i) : i \in 0 .. NumRegs - 1}
InitRegs == [k \in RegKeys |-> I(0)]
EmptyCells == [k \in {} |-> undefined]
InitMem == [isArray |-> TRUE, cells |-> EmptyCells]

\* this.variables.get('mem')?.value[address]
MemRead(m, address) ==
    IF ~m.isArray THEN undefined
    ELSE IF address \in DOMAIN m.cells THEN m.cells[address]
    ELSE IF IsNum(address) /\ address.hi = 0 /\ address.lo < MemSize THEN I(0)
    ELSE undefined

\* this.variables.get('mem')!.value[address] = value, on the array
MemWrite(m, address, value) ==
    [m EXCEPT !.cells = [k \in DOMAIN m.cells \cup {address} |->
                            IF k = address THEN value ELSE m.cells[k]]]

\* this.labels.find(l => l.name === name)?.line
FindLabel(labs, name) ==
    IF \E i \in 1 .. Len(labs) : labs[i].name = name
    THEN I(labs[CHOOSE i \in 1 .. Len(labs) :
                    /\ labs[i].name = name
                    /\ \A j \in 1 .. i - 1 : labs[j].name # name].line)
    ELSE undefined

(***************************************************************************)
(* initializeContents: the label and .fill pass, then starts and ends      *)
(***************************************************************************)
\* the value a .fill operand is stored as
FillValue(labs, tok) ==
    IF IsNumeric(tok) THEN parseInt(tok) ELSE FindLabel(labs, tok)

\* the labels after line l has been looked at
PushLabel(labs, line, l) ==
    IF SEP_REGEXP(line)
    THEN Append(labs, [name |-> line.label, line |-> l])
    ELSE labs

RECURSIVE LabelPass(_, _, _, _)
LabelPass(lines, l, labs, m) ==
    IF l >= Len(lines) THEN [labels |-> labs, mem |-> m, aborted |-> FALSE]
    ELSE IF lines[l + 1].lead = "tab" THEN LabelPass(lines, l + 1, labs, m)
    ELSE Then(PushLabel(labs, lines[l + 1], l), LAMBDA labs2 :
         IF ~FILL_REGEX(lines[l + 1]) THEN LabelPass(lines, l + 1, labs2, m)
         ELSE LET label == FindLabel(labs2, lines[l + 1].label)
                  value == FillValue(labs2, lines[l + 1].toks[2])
              IN  IF label = undefined \/ value = undefined
                  THEN [labels |-> labs2, mem |-> m, aborted |-> TRUE]
                  ELSE Then(MemWrite(m, label, value), LAMBDA m2 :
                       LabelPass(lines, l + 1, labs2, m2)))

RECURSIVE SumLines(_)
SumLines(lines) ==
    IF lines = <<>> THEN 0 ELSE getWords(Head(lines)) + SumLines(Tail(lines))

StartsOf(lines) == [l \in 1 .. Len(lines) |-> SumLines(SubSeq(lines, 1, l - 1))]
EndsOf(lines) == [l \in 1 .. Len(lines) |-> SumLines(SubSeq(lines, 1, l))]

initializeContents(lines, labs, m) ==
    Then(LabelPass(lines, 0, labs, m), LAMBDA r :
        [sourceLines |-> lines, labels |-> r.labels, mem |-> r.mem,
         aborted |-> r.aborted,
         starts |-> IF r.aborted THEN <<>> ELSE StartsOf(lines),
         ends |-> IF r.aborted THEN <<>> ELSE EndsOf(lines)])

(***************************************************************************)
(* The interpreter.  An operation takes the record e of the fields a call  *)
(* can change and gives the record after it; e.ret is the returned         *)
(* boolean ("a stopped event was sent") and e.threw says that a host       *)
(* error was thrown.                                                       *)
(***************************************************************************)
Cur ==
    [regs |-> regs, mem |-> mem, extras |-> extras,
     currentLine |-> currentLine, instruction |-> instruction,
     breakPoints |-> breakPoints, events |-> events, threw |-> FALSE,
     ret |-> FALSE, halted |-> halted, last |-> last,
     prev |-> prev, stops |-> stops, timers |-> timers, received |-> received]

\* sendEvent(event)
\* what a timer will emit: the event and, for the register dump of halt,
\* the register and the value the text is made of
Note(event) == [event |-> event, reg |-> -1, value |-> undefined]
RegNote(i, v) == [event |-> "output", reg |-> i, value |-> v]
\* setTimeout(() => this.emit(...), 0); an emit no listener hears is left out
Queue(q, note) == IF listening THEN Append(q, note) ELSE q
\* the emit made at once, inside the call
sendNoteInline(e, note) ==
    [e EXCEPT !.events = @ \cup {note.event},
              !.received = [note |-> note, turn |-> 1 - @.turn]]
\* sendEvent(event, ...args)
sendNote(e, note) ==
    [e EXCEPT !.events = @ \cup {note.event}, !.timers = Queue(@, note)]
sendEvent(e, event) == sendNote(e, Note(event))

\* this.starts[x], this.ends[x]
At(seq, x) ==
    IF IsSmall(x) /\ AsInt(x) >= 0 /\ AsInt(x) < Len(seq)
    THEN I(seq[AsInt(x) + 1])
    ELSE undefined

\* set currentLine(x)
SetCurrentLine(e, x) ==
    [e EXCEPT !.currentLine = x, !.instruction = At(starts, x)]

HasLine(x) == IsSmall(x) /\ AsInt(x) >= 0 /\ AsInt(x) < Len(sourceLines)
\* the text "undefined", which a regular expression is given for a missing line
UndefinedText == L("undefined", <<>>)
getLine(x) == IF HasLine(x) THEN sourceLines[AsInt(x) + 1] ELSE UndefinedText

\* this.variables.get(`reg ${r}`)?.value
RegGet(e, r) == IF r \in DOMAIN e.regs THEN e.regs[r] ELSE undefined
\* this.variables.set(`reg ${r}`, new RuntimeVariable(`reg ${r}`, v))
RegSet(e, r, v) ==
    [e EXCEPT !.regs = [k \in DOMAIN e.regs \cup {r} |->
                            IF k = r THEN v ELSE e.regs[k]]]

\* the sum as it is before the mask is applied
AddUnmasked(a, b) == Plus(ToNumber(a), ToNumber(b))
\* the bitwise or as it is before the complement is taken
OrResult(a, b) == BitAnd(BitOr(ToNumber(a), ToNumber(b)), MASK32)

\* the result of add, before it is stored
AddResult(a, b) == BitAnd(Plus(ToNumber(a), ToNumber(b)), MASK32)
\* the result of nor, before it is stored
NorResult(a, b) == BitAnd(BitNot(BitOr(ToNumber(a), ToNumber(b))), MASK32)

executeAdd(e, r1, r2, tok) ==
    IF IsNumeric(tok)
    THEN LET offset == parseInt(tok)
             e1 == IF Lt(I(7), offset) \/ Lt(offset, I(0))
                   THEN sendEvent(e, "stopOnException") ELSE e
         IN  RegSet(e1, offset, AddResult(RegGet(e, r1), RegGet(e, r2)))
    ELSE sendEvent(e, "stopOnException")

executeNor(e, r1, r2, tok) ==
    IF IsNumeric(tok)
    THEN LET offset == parseInt(tok)
             e1 == IF Lt(I(7), offset)
                   THEN sendEvent(e, "stopOnException") ELSE e
         IN  RegSet(e1, offset, NorResult(RegGet(e, r1), RegGet(e, r2)))
    ELSE sendEvent(e, "stopOnException")

\* the line a taken beq assigns to currentLine
BranchLine(target) == Minus1(target)

executeBeq(e, r1, r2, tok) ==
    LET equal == StrictEq(RegGet(e, r1), RegGet(e, r2))
        target == IF IsNumeric(tok) THEN parseInt(tok) ELSE FindLabel(labels, tok)
    IN  IF target = undefined THEN sendEvent(e, "stopOnException")
        ELSE IF equal THEN SetCurrentLine(e, BranchLine(target))
        ELSE e

\* num_offset of lw and sw, with the event of a missing label
NumOffset(tok) == IF IsNumeric(tok) THEN parseInt(tok) ELSE FindLabel(labels, tok)
OffsetEvent(e, tok) ==
    IF NumOffset(tok) = undefined THEN sendEvent(e, "stopOnException") ELSE e

\* what lw stores in its destination register
LoadedValue(e, address) == MemRead(e.mem, address)

executeLw(e, r1, r2, tok) ==
    LET e1 == OffsetEvent(e, tok)
        address == Plus(RegGet(e, r1), NumOffset(tok))
        value == LoadedValue(e, address)
        e2 == IF value = undefined THEN sendEvent(e1, "stopOnException") ELSE e1
    IN  RegSet(e2, r2, value)

\* the address sw writes to
StoreAddress(e, r1, tok) == Plus(RegGet(e, r1), NumOffset(tok))

executeSw(e, r1, r2, tok) ==
    LET e1 == OffsetEvent(e, tok)
        address == StoreAddress(e, r1, tok)
        value == ToNumber(RegGet(e, r2))
    IN  IF e.mem.isArray
        THEN [e1 EXCEPT !.mem = MemWrite(e.mem, address, value)]
        ELSE [e1 EXCEPT !.threw = TRUE]   \* a property assigned on a number

executeRType(e, op, r1, r2, tok) ==
    CASE op = "add" -> executeAdd(e, r1, r2, tok)
      [] op = "nor" -> executeNor(e, r1, r2, tok)
      [] op = "beq" -> executeBeq(e, r1, r2, tok)
      [] op = "lw" -> executeLw(e, r1, r2, tok)
      [] op = "sw" -> executeSw(e, r1, r2, tok)

\* the value jalr links, and the line it assigns to currentLine
LinkValue(e) == Plus1(e.currentLine)
\* a jalr that reads its target before it writes the link
executeJTypeReadFirst(e, r1, r2) ==
    Then(Minus1(ToNumber(RegGet(e, r1))), LAMBDA target :
        SetCurrentLine(RegSet(e, r2, LinkValue(e)), target))
executeJType(e, r1, r2) ==
    Then(RegSet(e, r2, LinkValue(e)), LAMBDA e1 :
        SetCurrentLine(e1, Minus1(ToNumber(RegGet(e1, r1)))))

\* what follows halt's register dump in executeOType
AfterHalt(e) == [sendEvent(e, "end") EXCEPT !.halted = TRUE]

\* a dump of one register only
DumpOne(e, i) == sendNote(e, RegNote(i, RegGet(e, I(i))))

\* for (let i = 0; i < 8; i++) this.sendEvent('output', ..., `reg ${i}: ...`)
RECURSIVE DumpRegisters(_, _)
DumpRegisters(e, i) ==
    IF i >= NumRegs THEN e
    ELSE DumpRegisters(sendNote(e, RegNote(i, RegGet(e, I(i)))), i + 1)

executeOType(e, op) ==
    IF op = "halt" THEN AfterHalt(DumpRegisters(e, 0)) ELSE e

(***************************************************************************)
(* executeLine                                                             *)
(***************************************************************************)
\* the while loop over the instruction units of the line
RECURSIVE InstructionLoop(_, _)
InstructionLoop(instr, end) ==
    IF Lt(instr, end)
    THEN LET next == Plus1(instr)
         IN  IF next \in instructionBreakpoints
             THEN [instruction |-> next, hit |-> TRUE]
             ELSE InstructionLoop(next, end)
    ELSE [instruction |-> instr, hit |-> FALSE]

\* 'read', 'write' and 'read write': accessType.indexOf(access) >= 0
AccessMatches(accessType, access) ==
    accessType = access \/ accessType = "read write"

\* '$name=value': the variable is replaced by one that holds the number
Assign(e, name) ==
    IF name = "mem"
    THEN [e EXCEPT !.mem = [isArray |-> FALSE, cells |-> EmptyCells]]
    ELSE [e EXCEPT !.extras = @ \cup {name}]

\* the loop over the variable accesses of the line
RECURSIVE ScanAccesses(_, _)
ScanAccesses(e, toks) ==
    IF toks = <<>> THEN e
    ELSE IF Head(toks) \notin DollarTokens THEN ScanAccesses(e, Tail(toks))
    ELSE LET name == DollarName(Head(toks))
             write == DollarHasValue(Head(toks))
             has == name = "mem" \/ name \in e.extras
             access == IF write THEN "write" ELSE "read"
         IN  Then(IF write THEN Assign(e, name) ELSE e, LAMBDA e1 :
                 IF /\ has
                    /\ name \in DOMAIN breakAddresses
                    /\ AccessMatches(breakAddresses[name], access)
                 THEN [sendEvent(e1, "stopOnDataBreakpoint") EXCEPT !.ret = TRUE]
                 ELSE ScanAccesses(e1, Tail(toks)))

HasToken(line, set) ==
    \E i \in 1 .. Len(AllTokens(line)) : AllTokens(line)[i] \in set

\* the 'exception(...)' and 'exception' patterns
ExceptionStops(line) ==
    IF HasToken(line, NamedExceptionTokens)
    THEN namedException = "E" \/ otherExceptions
    ELSE HasToken(line, ExceptionTokens) /\ otherExceptions

\* what executeLine does after the instruction has been executed
AfterInstruction(e, line) ==
    Then(ScanAccesses(e, AllTokens(line)), LAMBDA e1 :
        IF e1.ret THEN e1
        ELSE IF ExceptionStops(line)
        THEN [sendEvent(e1, "stopOnException") EXCEPT !.ret = TRUE]
        ELSE e1)

\* the record of an execution: the line and the state before it
Executed(e, ln) == [ln |-> ln, regs |-> e.regs, mem |-> e.mem]

\* the decoded instruction is executed
Dispatch(e, line) ==
    LET t == line.toks
    IN  IF R_INST_REGEX(line)
        THEN executeRType(e, t[1], parseInt(t[2]), parseInt(t[3]), t[4])
        ELSE IF J_INST_REGEX(line)
        THEN executeJType(e, parseInt(t[2]), parseInt(t[3]))
        ELSE IF O_INST_REGEX(line) THEN executeOType(e, t[1])
        ELSE e

\* a decoder that takes every line for an instruction
DecodesAnything(line) == TRUE

Decodes(line) ==
    R_INST_REGEX(line) \/ J_INST_REGEX(line) \/ O_INST_REGEX(line) \/ FILL_REGEX(line)

\* the line is decoded and executed, then its free text is looked at
Decode(e0, ln, line) ==
    IF ~Decodes(line)
    THEN [sendEvent(e0, "stopOnException") EXCEPT !.ret = TRUE]
    ELSE Then([sendEvent(e0, "output") EXCEPT
                  !.prev = e0.last, !.last = Executed(e0, ln)], LAMBDA e1 :
         Then(Dispatch(e1, line), LAMBDA e2 :
             IF e2.threw THEN e2 ELSE AfterInstruction(e2, line)))

executeLine(e) ==
    Then(InstructionLoop(e.instruction, At(ends, e.currentLine)), LAMBDA il :
    Then([e EXCEPT !.instruction = il.instruction], LAMBDA e0 :
        IF il.hit
        THEN [sendEvent(e0, "stopOnInstructionBreakpoint") EXCEPT
                 !.ret = TRUE,
                 !.stops = @ \cup {<<"stopOnInstructionBreakpoint", il.instruction>>}]
        ELSE Decode(e0, e.currentLine, getLine(e.currentLine))))

(***************************************************************************)
(* The controller                                                          *)
(***************************************************************************)
updateCurrentLine(e) ==
    IF Lt(e.currentLine, I(Len(sourceLines) - 1))
    THEN SetCurrentLine(e, Plus1(e.currentLine))
    ELSE [sendEvent(e, "end") EXCEPT !.ret = TRUE]

\* the breakpoint a stop at line ln verifies: the first one on that line
FirstAt(bps, ln) ==
    CHOOSE i \in 1 .. Len(bps) :
        /\ I(bps[i].line) = ln
        /\ \A j \in 1 .. i - 1 : I(bps[j].line) # ln

RECURSIVE FindLoop(_, _)
FindLoop(e, ln) ==
    IF ~Lt(ln, I(Len(sourceLines))) THEN e
    ELSE IF \E i \in 1 .. Len(e.breakPoints) : I(e.breakPoints[i].line) = ln
    THEN LET i == FirstAt(e.breakPoints, ln)
             e1 == sendEvent(e, "stopOnBreakpoint")
             e2 == IF e.breakPoints[i].verified THEN e1
                   ELSE [sendEvent(e1, "breakpointValidated") EXCEPT
                            !.breakPoints[i].verified = TRUE,
                            !.stops = @ \cup {<<"breakpointValidated",
                                                I(e.breakPoints[i].id)>>}]
         IN  [SetCurrentLine(e2, ln) EXCEPT
                 !.ret = TRUE, !.stops = @ \cup {<<"stopOnBreakpoint", ln>>}]
    ELSE IF ~HasLine(ln) THEN [e EXCEPT !.threw = TRUE]   \* undefined.length
    ELSE IF LineLength(getLine(ln)) > 0 THEN SetCurrentLine(e, ln)
    ELSE Then(Plus1(ln), LAMBDA next : FindLoop(e, next))

\* stepEvent is "" when the caller gives none
findNextStatement(e, stepEvent) ==
    Then(FindLoop(e, e.currentLine), LAMBDA e1 :
        IF e1.ret \/ e1.threw THEN e1
        ELSE IF stepEvent # "" THEN [sendEvent(e1, stepEvent) EXCEPT !.ret = TRUE]
        ELSE e1)

\* one turn of continue()'s loop; the loop goes on while neither ret nor threw
continueTurn(e) ==
    Then(executeLine(e), LAMBDA e1 :
        IF e1.ret \/ e1.threw THEN e1
        ELSE Then(updateCurrentLine(e1), LAMBDA e2 :
                 IF e2.ret THEN e2 ELSE findNextStatement(e2, "")))

\* step(false, false)
stepLine(e) ==
    Then(executeLine(e), LAMBDA e1 :
        IF e1.ret \/ e1.threw THEN e1
        ELSE Then(updateCurrentLine(e1), LAMBDA e2 :
                 IF e2.ret THEN e2 ELSE findNextStatement(e2, "stopOnStep")))

\* step(true, false)
stepInstruction(e) ==
    [sendEvent(e, "stopOnStep") EXCEPT
        !.instruction = Plus1(ToNumber(e.instruction)), !.ret = TRUE]

\* getLine(bp.line) is undefined for a negative line and .length throws
VerifyThrows(bp) == ~bp.verified /\ bp.line < 0

\* verifyBreakpoints' treatment of one breakpoint, given the loaded lines
verifyOne(bp, lines) ==
    IF bp.verified \/ bp.line >= Len(lines) \/ VerifyThrows(bp) THEN bp
    ELSE LET srcLine == lines[bp.line + 1]
             down == IF LineLength(srcLine) = 0 \/ srcLine.label \in PlusLabels
                     THEN bp.line + 1 ELSE bp.line
             up == IF srcLine.label \in MinusLabels THEN down - 1 ELSE down
         IN  [bp EXCEPT !.line = up, !.verified = ~HasToken(srcLine, LazyTokens)]

\* forEach stops at the first breakpoint it throws at
verifyBreakpoints(bps, lines) ==
    [i \in 1 .. Len(bps) |->
        IF \E j \in 1 .. i : VerifyThrows(bps[j]) THEN bps[i]
        ELSE verifyOne(bps[i], lines)]
verifyRejects(bps) == \E i \in 1 .. Len(bps) : VerifyThrows(bps[i])

(***************************************************************************)
(* The calls of the debug adapter.  mode is "new" before start(),          *)
(* "starting" while start() awaits the load, "running" inside continue()'s *)
(* loop and "idle" between calls.                                          *)
(***************************************************************************)
Commit(e) ==
    /\ regs' = e.regs
    /\ mem' = e.mem
    /\ extras' = e.extras
    /\ currentLine' = e.currentLine
    /\ instruction' = e.instruction
    /\ breakPoints' = e.breakPoints
    /\ events' = e.events
    /\ threw' = e.threw
    /\ halted' = e.halted
    /\ last' = e.last
    /\ prev' = e.prev
    /\ stops' = e.stops
    /\ timers' = e.timers
    /\ received' = e.received

\* a call begins: nothing sent yet, nothing thrown
Fresh == [Cur EXCEPT !.events = {}]

textVars == <<prog, reading, listening, sourceFile, sourceLines, labels, starts, ends,
              loadAborted>>
tableVars == <<breakpointId, instructionBreakpoints, breakAddresses, registered,
               namedException, otherExceptions, calls>>

\* loadSource(file): a file already named is not read again
loadSource ==
    IF sourceFile # ""
    THEN [sourceLines |-> sourceLines, labels |-> labels, mem |-> mem,
          aborted |-> loadAborted, starts |-> starts, ends |-> ends]
    ELSE initializeContents(prog, labels, mem)

LoadInto(ld) ==
    /\ sourceFile' = "program"
    /\ sourceLines' = ld.sourceLines
    /\ labels' = ld.labels
    /\ starts' = ld.starts
    /\ ends' = ld.ends
    /\ loadAborted' = ld.aborted
    /\ mem' = ld.mem

\* the 'Label ... not found' output of a load that is made now and aborted
LoadEvents(ld) == IF sourceFile = "" /\ ld.aborted THEN {"output"} ELSE {}
LoadNotes(ld) ==
    IF sourceFile = "" /\ ld.aborted THEN Queue(<<>>, Note("output")) ELSE <<>>

\* start(program, stopOnEntry, debug), up to the end of its first await
start(stopOnEntry, debug) ==
    /\ mode = "new"
    /\ \E ld \in {loadSource} :
          /\ LoadInto(ld)
          /\ events' = LoadEvents(ld)
          /\ timers' = timers \o LoadNotes(ld)
    /\ pending' = [stopOnEntry |-> stopOnEntry, debug |-> debug]
    /\ mode' = "starting"
    /\ UNCHANGED <<prog, reading, listening, received, regs, extras, currentLine,
                   instruction, breakPoints, threw, halted, last, prev, stops>>
    /\ UNCHANGED tableVars

Validated(before, after) ==
    {i \in 1 .. Len(before) : ~before[i].verified /\ after[i].verified}
ValidatedEvent(before, after) ==
    IF Validated(before, after) # {} THEN {"breakpointValidated"} ELSE {}
ValidatedNotes(before, after) ==
    IF listening
    THEN [j \in 1 .. Cardinality(Validated(before, after)) |->
             Note("breakpointValidated")]
    ELSE <<>>
ValidatedStops(before, after) ==
    {<<"breakpointValidated", I(after[i].id)>> : i \in Validated(before, after)}

\* start() after the load: verifyBreakpoints, then the entry stop or continue()
startLoaded ==
    /\ mode = "starting"
    /\ \E bps \in {IF pending.debug
                    THEN verifyBreakpoints(breakPoints, sourceLines)
                    ELSE breakPoints} :
       \E e \in {[Fresh EXCEPT !.breakPoints = bps,
                                !.events = ValidatedEvent(breakPoints, bps),
                                !.timers = @ \o ValidatedNotes(breakPoints, bps),
                                !.stops = @ \cup ValidatedStops(breakPoints, bps)]} :
          IF pending.debug /\ verifyRejects(breakPoints)
          THEN /\ Commit(e)         \* start() is rejected: nothing is run
               /\ mode' = "idle"
          ELSE IF pending.debug /\ pending.stopOnEntry
          THEN /\ \E e1 \in {findNextStatement(e, "stopOnEntry")} : Commit(e1)
               /\ mode' = "idle"
          ELSE /\ Commit(e)
               /\ mode' = "running"
    /\ UNCHANGED <<pending>>
    /\ UNCHANGED textVars
    /\ UNCHANGED tableVars

\* the events a client lets pile up before it makes its next call
MaxTimers == 1

\* continue(false): the call enters its loop
continue ==
    /\ mode = "idle"
    /\ Len(timers) <= MaxTimers
    /\ \E e \in {Fresh} : Commit(e)
    /\ mode' = "running"
    /\ UNCHANGED <<pending>>
    /\ UNCHANGED textVars
    /\ UNCHANGED tableVars

\* one turn of the loop of continue()
runLine ==
    /\ mode = "running"
    /\ \E e0 \in {Cur} : \E e \in {continueTurn(e0)} :
          /\ Commit(e)
          /\ mode' = IF e.ret \/ e.threw THEN "idle" ELSE "running"
    /\ UNCHANGED <<pending>>
    /\ UNCHANGED textVars
    /\ UNCHANGED tableVars

\* the instruction pointer up to which the model steps by instruction
MaxInstruction == 3

\* step(instruction, false)
step(byInstruction) ==
    /\ mode = "idle"
    /\ Len(timers) <= MaxTimers
    /\ byInstruction => ~IsNum(instruction) \/ Lt(instruction, I(MaxInstruction))
    /\ \E e0 \in {Fresh} :
       \E e \in {IF byInstruction THEN stepInstruction(e0) ELSE stepLine(e0)} :
          Commit(e)
    /\ mode' = "idle"
    /\ UNCHANGED <<pending>>
    /\ UNCHANGED textVars
    /\ UNCHANGED tableVars

\* the breakpoint, filter and watch calls made in one run of the model
MaxCalls == 1
\* the instruction addresses a breakpoint is set at
MaxAddress == 2

\* lines a breakpoint is moved from ('+' down, '-' up, an empty line down)
\* and lines it is not verified on ('lazy')
BreakPrograms ==
    { << L("+", <<"noop", "lazy">>), T(<<"noop">>), T(<<"halt">>) >>,
      << T(<<"noop">>), L("-", <<"noop", "lazy">>), T(<<"halt">>) >>,
      << T(<<"noop", "lazy">>), Blank, T(<<"halt">>) >>,
      << L("-", <<"noop", "lazy">>), T(<<"noop">>), T(<<"halt">>) >>,
      << L("+", <<"noop">>), L("-", <<"noop">>), T(<<"halt">>) >>,
      << T(<<"noop">>), T(<<"halt">>), Blank >> }
\* the breakpoint calls made on one of them
MaxBreakCalls == 2

\* lines that read and write the variables a data breakpoint can watch
WatchPrograms ==
    { << T(<<"noop", "$x=1">>), T(<<"noop", "$x">>), T(<<"noop", "$mem">>),
         T(<<"halt">>) >> }
\* the watch and filter calls made on one of them
MaxWatchCalls == 3

CallBound ==
    IF prog \in BreakPrograms THEN MaxBreakCalls
    ELSE IF prog \in WatchPrograms THEN MaxWatchCalls
    ELSE MaxCalls

ConfigCall ==
    /\ mode \in {"new", "idle"}
    /\ calls < CallBound
    /\ calls' = calls + 1

\* the event loop runs the oldest timer: its callback emits the note to the
\* listener; a callback runs only when no call is on the stack
deliver ==
    /\ mode # "running"
    /\ timers # <<>>
    /\ received' = [note |-> Head(timers), turn |-> 1 - received.turn]
    /\ timers' = Tail(timers)
    /\ UNCHANGED <<regs, mem, extras, currentLine, instruction, events, threw,
                   halted, last, prev, stops, mode, pending, breakPoints>>
    /\ UNCHANGED textVars
    /\ UNCHANGED tableVars

\* setBreakPoint(path, line): the push, the load it may cause, the verification
setBreakPoint(line) ==
    /\ ConfigCall
    /\ \E ld \in {loadSource} :
       \E bps \in {Append(breakPoints,
                   [id |-> breakpointId, line |-> line, verified |-> FALSE])} :
       \E after \in {verifyBreakpoints(bps, ld.sourceLines)} :
          /\ LoadInto(ld)
          /\ breakPoints' = after
          /\ events' = LoadEvents(ld) \cup ValidatedEvent(bps, after)
          /\ timers' = timers \o LoadNotes(ld) \o ValidatedNotes(bps, after)
          /\ stops' = stops \cup ValidatedStops(bps, after)
    /\ breakpointId' = breakpointId + 1
    /\ UNCHANGED <<prog, reading, listening, received, regs, extras, currentLine,
                   instruction, threw, halted, last, prev, mode, pending, instructionBreakpoints,
                   breakAddresses, registered, namedException, otherExceptions>>

\* setBreakPoint(path, line) on a file not named yet, up to the await of
\* loadSource: the breakpoint is pushed, the file is named and its read begun
setBreakPointAwait(line) ==
    /\ ConfigCall
    /\ sourceFile = ""
    /\ sourceFile' = "program"
    /\ reading' = TRUE
    /\ breakPoints' = Append(breakPoints,
                          [id |-> breakpointId, line |-> line, verified |-> FALSE])
    /\ breakpointId' = breakpointId + 1
    /\ events' = {}
    /\ UNCHANGED <<prog, listening, sourceLines, labels, starts, ends, loadAborted,
                   mem, timers, received, stops, regs, extras, currentLine,
                   instruction, threw, halted, last, prev, mode, pending,
                   instructionBreakpoints, breakAddresses, registered,
                   namedException, otherExceptions>>

\* the read ends while no call is on the stack: loadSource goes on with
\* initializeContents, and verifyBreakpoints of the call that awaited it with
\* its forEach
readFile ==
    /\ reading
    /\ mode \in {"new", "idle"}
    /\ reading' = FALSE
    /\ \E ld \in {initializeContents(prog, labels, mem)} :
       \E after \in {verifyBreakpoints(breakPoints, ld.sourceLines)} :
          /\ LoadInto(ld)
          /\ breakPoints' = after
          /\ events' = (IF ld.aborted THEN {"output"} ELSE {})
                            \cup ValidatedEvent(breakPoints, after)
          /\ timers' = timers
                \o (IF ld.aborted THEN Queue(<<>>, Note("output")) ELSE <<>>)
                \o ValidatedNotes(breakPoints, after)
          /\ stops' = stops \cup ValidatedStops(breakPoints, after)
    /\ UNCHANGED <<prog, listening, received, regs, extras, currentLine,
                   instruction, threw, halted, last, prev, mode, pending>>
    /\ UNCHANGED tableVars

RemoveAt(seq, i) == SubSeq(seq, 1, i - 1) \o SubSeq(seq, i + 1, Len(seq))

\* clearBreakPoint(path, line)
clearBreakPoint(line) ==
    /\ ConfigCall
    /\ breakPoints' =
          IF \E i \in 1 .. Len(breakPoints) : breakPoints[i].line = line
          THEN RemoveAt(breakPoints, FirstAt(breakPoints, I(line)))
          ELSE breakPoints
    /\ UNCHANGED <<regs, mem, extras, currentLine, instruction, events, timers, received, threw,
                   halted, last, prev, stops, mode, pending, breakpointId,
                   instructionBreakpoints, breakAddresses, registered, namedException,
                   otherExceptions>>
    /\ UNCHANGED textVars

\* clearBreakpoints(path)
clearBreakpoints ==
    /\ ConfigCall
    /\ breakPoints' = <<>>
    /\ UNCHANGED <<regs, mem, extras, currentLine, instruction, events, timers, received, threw,
                   halted, last, prev, stops, mode, pending, breakpointId,
                   instructionBreakpoints, breakAddresses, registered, namedException,
                   otherExceptions>>
    /\ UNCHANGED textVars

NoWatches == [n \in {} |-> ""]

\* the recorded name of an access type
AccessName(accessType) == IF accessType = "readWrite" THEN "read write" ELSE accessType
\* a registration that replaces the recorded type
WatchModeLatest(t, x) == x
\* the type recorded for a name that has type t ("" for none) and is
\* registered with x
WatchMode(t, x) == IF t = "" THEN x ELSE IF t # x THEN "read write" ELSE t

\* setDataBreakpoint(address, accessType)
setDataBreakpoint(address, accessType) ==
    /\ ConfigCall
    /\ LET x == AccessName(accessType)
           t == IF address \in DOMAIN breakAddresses
                THEN breakAddresses[address] ELSE ""
       IN  breakAddresses' =
              [n \in DOMAIN breakAddresses \cup {address} |->
                  IF n = address THEN WatchMode(t, x) ELSE breakAddresses[n]]
    /\ registered' =
          [n \in DOMAIN registered \cup {address} |->
              (IF n \in DOMAIN registered THEN registered[n] ELSE {})
                  \cup (IF n = address THEN {accessType} ELSE {})]
    /\ UNCHANGED <<regs, mem, extras, currentLine, instruction, events, timers, received, threw,
                   halted, last, prev, stops, mode, pending, breakPoints, breakpointId,
                   instructionBreakpoints, namedException, otherExceptions>>
    /\ UNCHANGED textVars

\* clearAllDataBreakpoints()
clearAllDataBreakpoints ==
    /\ ConfigCall
    /\ breakAddresses' = NoWatches
    /\ registered' = NoWatches
    /\ UNCHANGED <<regs, mem, extras, currentLine, instruction, events, timers, received, threw,
                   halted, last, prev, stops, mode, pending, breakPoints, breakpointId,
                   instructionBreakpoints, namedException, otherExceptions>>
    /\ UNCHANGED textVars

\* setExceptionsFilters(namedException, otherExceptions); "" is undefined
setExceptionsFilters(named, other) ==
    /\ ConfigCall
    /\ namedException' = named
    /\ otherExceptions' = other
    /\ UNCHANGED <<regs, mem, extras, currentLine, instruction, events, timers, received, threw,
                   halted, last, prev, stops, mode, pending, breakPoints, breakpointId,
                   instructionBreakpoints, breakAddresses, registered>>
    /\ UNCHANGED textVars

\* setInstructionBreakpoint(address)
setInstructionBreakpoint(address) ==
    /\ ConfigCall
    /\ instructionBreakpoints' = instructionBreakpoints \cup {I(address)}
    /\ UNCHANGED <<regs, mem, extras, currentLine, instruction, events, timers, received, threw,
                   halted, last, prev, stops, mode, pending, breakPoints, breakpointId,
                   breakAddresses, registered, namedException, otherExceptions>>
    /\ UNCHANGED textVars

\* clearInstructionBreakpoints()
clearInstructionBreakpoints ==
    /\ ConfigCall
    /\ instructionBreakpoints' = {}
    /\ UNCHANGED <<regs, mem, extras, currentLine, instruction, events, timers, received, threw,
                   halted, last, prev, stops, mode, pending, breakPoints, breakpointId,
                   breakAddresses, registered, namedException, otherExceptions>>
    /\ UNCHANGED textVars

(***************************************************************************)
(* Programs                                                                *)
(***************************************************************************)
\* the end-to-end program of the sample workspace, reduced to its call:
\* main loads 10 and the address of sub, calls it and halts
SubProgram ==
    << T(<<"lw", "0", "1", "ten">>),
       T(<<"lw", "0", "4", "subAddr">>),
       T(<<"jalr", "4", "7">>),
       T(<<"halt">>),
       L("sub", <<"add", "1", "1", "1">>),
       T(<<"add", "1", "1", "3">>),
       T(<<"jalr", "7", "4">>),
       L("ten", <<".fill", "10">>),
       L("subAddr", <<".fill", "sub">>) >>

\* the recursive combination program of the sample workspace with its
\* comments, n = 4 and r = 2
CombProgram ==
    << T(<<"lw", "0", "1", "n", "a", "program", "to", "calculate", "the", "combination", "of", "two", "numbers">>),
       T(<<"lw", "0", "2", "r">>),
       T(<<"lw", "0", "4", "Caddr", "load", "combination", "function", "address">>),
       T(<<"jalr", "4", "7", "call", "function">>),
       T(<<"halt">>),
       L("comb", <<"lw", "0", "6", "pos1", "r6=1">>),
       T(<<"sw", "5", "7", "Stack", "save", "return", "address">>),
       T(<<"add", "5", "6", "5", "increment", "stack", "pointer">>),
       T(<<"sw", "5", "1", "Stack", "save", "input", "1">>),
       T(<<"add", "5", "6", "5", "increment", "stack", "pointer">>),
       T(<<"sw", "5", "2", "Stack", "save", "input", "2">>),
       T(<<"add", "5", "6", "5", "increment", "stack", "pointer">>),
       T(<<"sw", "5", "3", "Stack", "save", "return", "value">>),
       T(<<"beq", "2", "0", "ret1", "if", "input", "2=0,", "return1">>),
       T(<<"beq", "2", "1", "ret1", "if", "input", "2=1,", "return1">>),
       L("else", <<"lw", "0", "6", "neg1", "r6=-1">>),
       T(<<"add", "1", "6", "1", "input", "1=input", "1-1">>),
       T(<<"lw", "0", "6", "pos1", "r6=1">>),
       T(<<"add", "5", "6", "5", "stack", "pointer", "point", "to", "new", "stack">>),
       T(<<"lw", "0", "4", "Caddr", "load", "combination", "function", "address">>),
       T(<<"jalr", "4", "7", "call", "function">>),
       T(<<"lw", "0", "6", "pos1", "r6=1">>),
       T(<<"sw", "5", "3", "Stack", "save", "return", "value">>),
       T(<<"add", "5", "6", "5", "stack", "pointer", "point", "to", "new", "stack">>),
       T(<<"lw", "0", "6", "neg1", "r6=-1">>),
       T(<<"add", "2", "6", "2", "input", "2=input", "2-1">>),
       T(<<"lw", "0", "4", "Caddr", "load", "combination", "function", "address">>),
       T(<<"jalr", "4", "7", "call", "function">>),
       T(<<"lw", "5", "6", "Stack", "r6=return", "value">>),
       T(<<"add", "3", "6", "3", "return", "value=return", "value+return", "value">>),
       T(<<"lw", "0", "6", "neg1", "r6=-1">>),
       T(<<"add", "5", "6", "5", "decrement", "stack", "pointer">>),
       T(<<"lw", "5", "2", "Stack", "recover", "input", "2">>),
       T(<<"add", "5", "6", "5", "decrement", "stack", "pointer">>),
       T(<<"lw", "5", "1", "Stack", "recover", "input", "1">>),
       T(<<"add", "5", "6", "5", "decrement", "stack", "pointer">>),
       T(<<"lw", "5", "7", "Stack", "recover", "return", "address">>),
       T(<<"add", "5", "6", "5", "decrement", "stack", "pointer">>),
       T(<<"jalr", "7", "4", "return">>),
       L("ret1", <<"lw", "0", "3", "pos1", "r3=1">>),
       T(<<"lw", "0", "6", "neg1", "r6=-1">>),
       T(<<"add", "5", "6", "5", "decrement", "stack", "pointer">>),
       T(<<"add", "5", "6", "5", "decrement", "stack", "pointer">>),
       T(<<"add", "5", "6", "5", "decrement", "stack", "pointer">>),
       T(<<"lw", "5", "7", "Stack", "recover", "return", "address">>),
       T(<<"add", "5", "6", "5", "decrement", "stack", "pointer">>),
       T(<<"jalr", "7", "4", "return">>),
       L("n", <<".fill", "4">>),
       L("r", <<".fill", "2">>),
       L("Caddr", <<".fill", "comb">>),
       L("pos1", <<".fill", "1">>),
       L("neg1", <<".fill", "-1">>),
       L("Stack", <<".fill", "0">>),
       Blank,
       Blank >>

\* the free-form text after the last argument of a line
Comments == {<<>>, <<"$mem">>, <<"$mem=1">>, <<"exception">>}

\* r1 is loaded with v; a beq on r1 and r0 to target; two lines to land on
BranchPrograms ==
    { << T(<<"lw", "0", "1", "A">>),
         T(<<"beq", "1", "0", target>> \o c),
         T(<<"noop">>),
         T(<<"halt">>),
         L("A", <<".fill", v>>) >> :
      target \in {"0", "2", "3", "4", "A"}, v \in {"0", "1"}, c \in Comments }

\* r1 is loaded with the target; a jalr through r1
JumpPrograms ==
    { << T(<<"lw", "0", "1", "A">>),
         T(<<"jalr", "1", r2>> \o c),
         T(<<"noop">>),
         T(<<"halt">>),
         L("A", <<".fill", target>>) >> :
      target \in {"0", "2", "3", "4"}, r2 \in {"1", "2"}, c \in Comments }

\* a load into r1, a line with or without a variable access and a store of
\* r1 at label X
StorePrograms ==
    { << T(<<"lw", "0", "1", address>>),
         T(<<"noop">> \o c),
         T(<<"sw", "0", "1", "X">>),
         T(<<"halt">>),
         L("A", <<".fill", "7">>),
         L("X", <<".fill", v>>) >> :
      c \in Comments, address \in {"A", "300"}, v \in {"0", "4", "A"} }

\* r1 holds 7; a load into r1 from a numeric or symbolic address
LoadPrograms ==
    { << T(<<"lw", "0", "1", "A">>),
         T(<<"lw", "0", "1", address>>),
         T(<<"halt">>),
         L("A", <<".fill", "7">>),
         Blank >> :
      address \in {"A", "3", "1", "4", "5", "255", "256", "300", "-1", "nolabel"} }

\* an instruction and two .fill directives with literal and symbolic operands
FillPrograms ==
    { << T(<<"nor", "0", "0", "1">>),
         L("a", <<".fill", v1>>),
         L("b", <<".fill", v2>>) >> :
      v1 \in {"5", "-1", "a", "b", "nolabel"}, v2 \in {"5", "a", "b"} }
    \cup { << T(<<"nor", "0", "0", "1">>), T(<<".fill", "5">>) >> }
    \cup { << T(<<"nor", "0", "0", "1">>),
              L("a", <<".fill", "5">>),
              L("a", <<".fill", "6">>) >> }

\* halt followed by further instructions
HaltPrograms ==
    { << T(<<"halt">>), T(<<"nor", "0", "0", "1">>), T(<<"halt">>) >>,
      << T(<<"noop">>), T(<<"halt">>) >>,
      SubProgram }

\* r1 holds 7; a store of r1 at a numeric or symbolic address
StoreAddressPrograms ==
    { << T(<<"lw", "0", "1", "A">>),
         T(<<"sw", "0", "1", address>>),
         T(<<"halt">>),
         L("A", <<".fill", "7">>) >> :
      address \in {"3", "4", "300", "-1", "nolabel"} }

\* an add or a nor into a register index outside 0..7
DestinationPrograms ==
    { << T(<<op, "0", "0", d>>), T(<<"noop">>), T(<<"halt">>) >> :
      op \in {"add", "nor"}, d \in {"8", "-1"} }

\* an instruction with a source register index outside 0..7
MissingRegisters == {<<"8", "0">>, <<"0", "8">>, <<"8", "9">>, <<"-1", "0">>}
ReadPrograms ==
    { << T(<<op, r[1], r[2], "1">>), T(<<"noop">>), T(<<"halt">>) >> :
      op \in ROps, r \in MissingRegisters }
    \cup
    { << T(<<"jalr", r1, "1">>), T(<<"noop">>), T(<<"halt">>) >> :
      r1 \in {"8", "-1"} }

\* a taken beq, and a jalr, to a label that is not declared or to a line
\* outside the program
TargetPrograms ==
    { << T(<<"beq", "0", "0", target>>), T(<<"noop">>), T(<<"halt">>) >> :
      target \in {"nolabel", "-1", "300"} }
    \cup
    { << T(<<"lw", "0", "1", "A">>),
         T(<<"jalr", "1", "2">>),
         T(<<"halt">>),
         L("A", <<".fill", target>>) >> :
      target \in {"-1", "300"} }

\* lines that match none of the four instruction shapes
InvalidPrograms ==
    { << T(<<"foo">>), T(<<"noop">>), T(<<"halt">>) >>,
      << T(<<"noop">>), T(<<"foo", "1">>), T(<<"halt">>) >>,
      << Blank, T(<<"noop">>), T(<<"halt">>) >> }

Programs ==
    BranchPrograms \cup JumpPrograms \cup StorePrograms \cup LoadPrograms
        \cup FillPrograms \cup HaltPrograms \cup StoreAddressPrograms
        \cup DestinationPrograms \cup TargetPrograms \cup InvalidPrograms

NoExecution == [ln |-> undefined, regs |-> InitRegs, mem |-> InitMem]

\* no note received yet
NoNote == [note |-> Note(""), turn |-> 0]

InitState(programs) ==
    /\ prog \in programs
    /\ reading = FALSE
    /\ timers = <<>>
    /\ received = NoNote
    /\ sourceFile = ""
    /\ sourceLines = <<>>
    /\ labels = <<>>
    /\ starts = <<>>
    /\ ends = <<>>
    /\ regs = InitRegs
    /\ mem = InitMem
    /\ extras = {}
    /\ currentLine = I(0)
    /\ instruction = I(0)
    /\ breakPoints = <<>>
    /\ breakpointId = 1
    /\ instructionBreakpoints = {}
    /\ breakAddresses = NoWatches
    /\ registered = NoWatches
    /\ namedException = ""
    /\ otherExceptions = FALSE
    /\ mode = "new"
    /\ events = {}
    /\ threw = FALSE
    /\ calls = 0
    /\ pending = [stopOnEntry |-> FALSE, debug |-> FALSE]
    /\ loadAborted = FALSE
    /\ halted = FALSE
    /\ last = NoExecution
    /\ prev = NoExecution
    /\ stops = {}

\* the runtime after construction, with no listener attached
InitWith(programs) ==
    /\ InitState(programs)
    /\ listening = FALSE

\* the same with a listener attached
InitListening(programs) ==
    /\ InitState(programs)
    /\ listening = TRUE

Init == InitWith(Programs)

\* the calls that run the program
Run ==
    \/ \E stopOnEntry \in BOOLEAN, debug \in BOOLEAN : start(stopOnEntry, debug)
    \/ startLoaded
    \/ continue
    \/ runLine
    \/ \E byInstruction \in BOOLEAN : step(byInstruction)

\* the calls that set and clear breakpoints
ConfigureBreakpoints ==
    \/ \E line \in 0 .. Len(prog) : setBreakPoint(line)
    \/ \E line \in 0 .. Len(prog) : clearBreakPoint(line)
    \/ clearBreakpoints
    \/ \E address \in 0 .. MaxAddress : setInstructionBreakpoint(address)
    \/ clearInstructionBreakpoints

\* the calls that set watches and filters
ConfigureWatches ==
    \/ \E address \in {"mem", "x"}, accessType \in {"read", "write", "readWrite"} :
          setDataBreakpoint(address, accessType)
    \/ clearAllDataBreakpoints
    \/ \E named \in {"", "E"}, other \in BOOLEAN : setExceptionsFilters(named, other)

Next == Run \/ ConfigureBreakpoints \/ ConfigureWatches

Spec == Init /\ [][Next]_vars

(***************************************************************************)
(* Further specifications                                                  *)
(***************************************************************************)
\* the register values the arithmetic programs load: 0, 1, -1, 10, the
\* bounds of the signed and of the unsigned 32-bit range and 0x55555555
ArithValues ==
    {"0", "1", "-1", "10", "2147483647", "-2147483648", "4294967295",
     "1431655765"}
RegisterNumerals == {"0", "1", "2", "3", "4", "5", "6", "7"}

\* r1 and r2 are loaded with a and b; one add or nor into register d
ArithPrograms ==
    { << T(<<"lw", "0", "1", "A">>),
         T(<<"lw", "0", r2, "B">>),
         T(<<op, "1", r2, d>>),
         T(<<"halt">>),
         L("A", <<".fill", a>>),
         L("B", <<".fill", b>>) >> :
      op \in {"add", "nor"}, r2 \in {"1", "2"}, d \in RegisterNumerals,
      a \in ArithValues, b \in ArithValues }

InitArith == InitWith(ArithPrograms)
SpecArith == InitArith /\ [][Run]_vars

\* the end-to-end program, started with stopOnEntry = false and no
\* breakpoints; the loop of continue() is never suspended
InitSub == InitWith({SubProgram})
RunToCompletion ==
    \/ \E debug \in BOOLEAN : start(FALSE, debug)
    \/ startLoaded
    \/ runLine
\* the combination program, run the same way while the memory array has at
\* most MaxCells cells written
InitComb == InitWith({CombProgram})
MaxCells == 24
RunComb == RunToCompletion /\ Cardinality(DOMAIN mem.cells) <= MaxCells
\* the programs breakpoints are moved in and the ones with a line of no shape,
\* under the calls that run them and that set and clear breakpoints
InitBreak == InitWith(BreakPrograms \cup InvalidPrograms)
SpecBreak == InitBreak /\ [][Run \/ ConfigureBreakpoints]_vars

\* a program with variable accesses under the calls that run it and that set
\* watches and filters
InitWatch == InitWith(WatchPrograms)
SpecWatch == InitWatch /\ [][Run \/ ConfigureWatches]_vars

\* programs of three lines, each an instruction that transfers no control, a
\* .fill or an empty line; one line at least is not empty
PlainLines ==
    {T(<<"noop">>), T(<<"add", "0", "0", "1">>), L("A", <<".fill", "1">>), Blank}
PlainPrograms ==
    {<<a, b, c>> : a \in PlainLines, b \in PlainLines, c \in PlainLines}
        \ {<<Blank, Blank, Blank>>}
InitPlain == InitWith(PlainPrograms)
SpecPlain == InitPlain /\ [][RunToCompletion]_vars /\ WF_vars(RunToCompletion)

\* the same programs under start, continue and step
SpecStep == InitPlain /\ [][Run]_vars

\* programs that end in the register dump of halt, one with a negative value
EventPrograms ==
    { << T(<<"lw", "0", "1", "A">>), T(<<"halt">>), L("A", <<".fill", "-1">>) >>,
      << T(<<"noop">>), T(<<"halt">>) >> }
\* the runtime with a listener attached: the calls and the event loop
InitEvents == InitListening(EventPrograms)
SpecEvents == InitEvents /\ [][Run \/ ConfigureBreakpoints \/ deliver]_vars

\* programs a breakpoint call is made on while the file is being read
AsyncPrograms ==
    { << T(<<"noop">>), T(<<"halt">>), Blank >>,
      << T(<<"noop", "lazy">>), Blank, T(<<"halt">>) >>,
      << L("+", <<"noop", "lazy">>), T(<<"noop">>), T(<<"halt">>) >> }
\* the calls of a client that does not wait for a breakpoint call to complete
RunAsync ==
    \/ Run
    \/ \E line \in 0 .. Len(prog) - 1 : setBreakPointAwait(line)
    \/ \E line \in 0 .. Len(prog) - 1 : setBreakPoint(line)
    \/ readFile
SpecAsync == InitWith(AsyncPrograms) /\ [][RunAsync]_vars
\* the programs with a jalr, under the calls that run them
SpecJump == InitWith(JumpPrograms) /\ [][Run]_vars
InitRead == InitWith(ReadPrograms)
SpecRead == InitRead /\ [][Run]_vars
SpecSub == InitSub /\ [][RunToCompletion]_vars /\ WF_vars(RunToCompletion)
SpecComb == InitComb /\ [][RunComb]_vars /\ WF_vars(RunComb)

(***************************************************************************)
(* Properties                                                              *)
(***************************************************************************)
Reg(i) == regs[I(i)]
LineCount == Len(sourceLines)
\* a line has been executed, and which
HasExecuted(x) == IsNum(x.ln)
LineOf(x) == getLine(x.ln)
\* the execution x was of an R-type line with operation op
IsOp(x, op) ==
    /\ HasExecuted(x)
    /\ R_INST_REGEX(LineOf(x))
    /\ LineOf(x).toks[1] = op
IsJalr(x) == HasExecuted(x) /\ ~R_INST_REGEX(LineOf(x)) /\ J_INST_REGEX(LineOf(x))
Operand(x, n) == LineOf(x).toks[n + 1]
\* a register index in [0,7]
IsRegister(r) == r \in RegKeys
\* a value of 32 bits, read as signed or as unsigned
Is32Bit(v) == IsNum(v) /\ v.hi >= -Half /\ v.hi < Base
IsInt32(v) == IsNum(v) /\ v.hi >= -Half /\ v.hi < Half
\* the lines that declare a label, and the line a name is declared on
Declares(lines, l, name) == lines[l + 1].lead = "" /\ lines[l + 1].label = name
Declared(lines, name) == \E l \in 0 .. Len(lines) - 1 : Declares(lines, l, name)
DeclaredLine(lines, name) ==
    CHOOSE l \in 0 .. Len(lines) - 1 :
        /\ Declares(lines, l, name)
        /\ \A k \in 0 .. l - 1 : ~Declares(lines, k, name)
\* a line index of the program whose text is not empty
IsTarget(v) == HasLine(v) /\ LineLength(getLine(v)) > 0

\* C1: once halt has been executed no line is executed any more: registers,
\* memory and program counter keep their values in every later step.
C1_HaltIsTerminal ==
    [][halted => /\ regs' = regs
                 /\ mem' = mem
                 /\ currentLine' = currentLine
                 /\ last' = last]_vars

\* C2: the end-to-end program, run without breakpoints, returns control with
\* register 3 equal to 40 and an end notification sent.
C2_RunsToCompletion ==
    <>(mode = "idle" /\ Reg(3) = I(40) /\ "end" \in events)

\* C3: when every .fill operand is a literal or a label declared on some line,
\* the load succeeds and, before anything is executed, the cell of every
\* .fill line holds the literal or the line of the label.
FillResolvable(line) ==
    FILL_REGEX(line) =>
        IsNumeric(line.toks[2]) \/ Declared(prog, line.toks[2])
FillExpected(line) ==
    IF IsNumeric(line.toks[2]) THEN parseInt(line.toks[2])
    ELSE I(DeclaredLine(prog, line.toks[2]))
C3_LoadResolvesFills ==
    (/\ sourceFile # ""
     /\ ~HasExecuted(last)
     /\ \A l \in 1 .. Len(prog) : FillResolvable(prog[l]))
    => /\ ~loadAborted
       /\ \A l \in 1 .. Len(prog) :
             FILL_REGEX(prog[l]) => MemRead(mem, I(l - 1)) = FillExpected(prog[l])

\* C4: after a load that failed on a .fill operand that no line declares,
\* no call executes a line and no register or memory cell changes.
C4_FailedLoadRunsNothing ==
    (/\ loadAborted
     /\ \E l \in 1 .. Len(prog) : ~FillResolvable(prog[l]))
    => /\ ~HasExecuted(last)
       /\ regs = InitRegs
       /\ \A k \in DOMAIN mem.cells :
             \E l \in 1 .. Len(prog) :
                FILL_REGEX(prog[l]) /\ k = I(l - 1)

\* the operands of an executed R-type line, and the registers before it
R1(x) == parseInt(Operand(x, 1))
R2(x) == parseInt(Operand(x, 2))
Before(x, r) == x.regs[r]
\* an add or nor was the last line executed: source registers with 32-bit
\* values, destination index d in [0,7]
ArithCase(op) ==
    /\ IsOp(last, op)
    /\ IsRegister(R1(last)) /\ IsRegister(R2(last))
    /\ IsNumeric(Operand(last, 3)) /\ IsRegister(parseInt(Operand(last, 3)))
    /\ Is32Bit(Before(last, R1(last))) /\ Is32Bit(Before(last, R2(last)))
Dest == regs[parseInt(Operand(last, 3))]

\* C5: add r1 r2 d leaves in reg[d] a 32-bit value congruent to a + b
\* modulo 2^32, for all 32-bit a = reg[r1], b = reg[r2] and d in [0,7].
C5_AddTruncates ==
    ArithCase("add") =>
        LET a == Before(last, R1(last))
            b == Before(last, R2(last))
            carry == (a.lo + b.lo) \div Base
        IN  /\ Is32Bit(Dest)
            /\ Dest.lo = (a.lo + b.lo) % Base
            /\ (Dest.hi - (a.hi + b.hi + carry)) % Base = 0
\* 0xFFFFFFFF and 1 have been added, and the destination holds 0
C5_Witness ==
    /\ ArithCase("add")
    /\ Before(last, R1(last)) = Num(Base - 1, Base - 1)
    /\ Before(last, R2(last)) = I(1)
    /\ Dest = I(0)

Bit(n, i) == (n \div 2^i) % 2
\* the 16-bit word r is the complement of the bitwise or of the words x and y
IsNorWord(x, y, r) ==
    \A i \in 0 .. 15 : Bit(r, i) = (1 - Bit(x, i)) * (1 - Bit(y, i))

\* C6: nor r1 r2 d leaves in reg[d] the 32-bit value whose bits are the
\* complement of a OR b, for all 32-bit a = reg[r1], b = reg[r2], d in [0,7].
C6_NorComplements ==
    ArithCase("nor") =>
        LET a == Before(last, R1(last))
            b == Before(last, R2(last))
        IN  /\ Is32Bit(Dest)
            /\ IsNorWord(a.lo, b.lo, Dest.lo)
            /\ IsNorWord(a.hi % Base, b.hi % Base, Dest.hi % Base)
\* 0x55555555 nor 0x80000000 has been computed: 0x2AAAAAAA
C6_Witness ==
    /\ ArithCase("nor")
    /\ Before(last, R1(last)) = Num(21845, 21845)
    /\ Before(last, R2(last)) = Num(-Half, 0)
    /\ Dest = Num(10922, 43690)

\* the line a beq or a jalr names, and the line after the one executed
BeqTarget(x) == NumOffset(Operand(x, 3))
Following(x) == Plus1(x.ln)

\* C7: after a beq at L with equal registers the next line executed is the
\* resolved target T, for every non-empty T in [0, lineCount); with unequal
\* registers it is the line following L.
C7_BranchTransfers ==
    (/\ IsOp(prev, "beq")
     /\ IsRegister(R1(prev)) /\ IsRegister(R2(prev))
     /\ Is32Bit(Before(prev, R1(prev))) /\ Is32Bit(Before(prev, R2(prev))))
    => IF Before(prev, R1(prev)) = Before(prev, R2(prev))
       THEN IsTarget(BeqTarget(prev)) => last.ln = BeqTarget(prev)
       ELSE IsTarget(Following(prev)) => last.ln = Following(prev)

\* jalr r1 r2 with two different registers
JalrCase(x) ==
    /\ IsJalr(x)
    /\ IsRegister(R1(x)) /\ IsRegister(R2(x))
    /\ R1(x) # R2(x)

\* C8: jalr r1 r2 at L, r1 # r2, leaves L + 1 in reg[r2], and the next line
\* executed is the line whose number reg[r1] held.
C8_JalrLinksAndJumps ==
    /\ JalrCase(last) => regs[R2(last)] = Following(last)
    /\ (JalrCase(prev) /\ IsTarget(Before(prev, R1(prev))))
          => last.ln = Before(prev, R1(prev))

\* C9: sw b s X with reg[b] = 0 and X a declared label writes reg[s] to the
\* cell of the line X is declared on, whatever the .fill cells hold.
C9_StoreToLabel ==
    (/\ IsOp(last, "sw")
     /\ IsRegister(R1(last)) /\ IsRegister(R2(last))
     /\ Before(last, R1(last)) = I(0)
     /\ Is32Bit(Before(last, R2(last)))
     /\ Declared(prog, Operand(last, 3)))
    => MemRead(mem, I(DeclaredLine(prog, Operand(last, 3))))
          = Before(last, R2(last))

\* the address of an executed lw
LoadAddress(x) == Plus(Before(x, R1(x)), NumOffset(Operand(x, 3)))
\* the cells written so far, by .fill or by sw
Written(m) == DOMAIN m.cells
InProgram(a) == IsSmall(a) /\ AsInt(a) >= 0 /\ AsInt(a) < LineCount

\* C10: an lw whose address is outside [0, lineCount) or names a cell never
\* written fails, and its destination register keeps its value.
C10_LoadFromUnwritten ==
    (/\ IsOp(last, "lw")
     /\ IsRegister(R1(last)) /\ IsRegister(R2(last))
     /\ Is32Bit(Before(last, R1(last)))
     /\ IsNum(NumOffset(Operand(last, 3)))
     /\ \/ ~InProgram(LoadAddress(last))
        \/ LoadAddress(last) \notin Written(last.mem))
    => /\ "stopOnException" \in events
       /\ regs[R2(last)] = Before(last, R2(last))

\* the address of an executed sw
StoredAt(x) == Plus(Before(x, R1(x)), NumOffset(Operand(x, 3)))

\* C11: an sw whose address is outside [0, lineCount) fails and leaves the
\* memory as it was, so every cell that holds a value has its address in
\* [0, lineCount).
C11_StoreInRange ==
    /\ (/\ IsOp(last, "sw")
        /\ IsRegister(R1(last)) /\ IsRegister(R2(last))
        /\ IsNum(StoredAt(last))
        /\ ~InProgram(StoredAt(last)))
       => /\ "stopOnException" \in events
          /\ mem = last.mem
    /\ \A k \in Written(mem) : InProgram(k)

\* the destination of an executed add or nor is a number outside [0,7]
BadDestination(x) ==
    /\ IsOp(x, "add") \/ IsOp(x, "nor")
    /\ IsNumeric(Operand(x, 3))
    /\ ~IsRegister(parseInt(Operand(x, 3)))

\* C12: an add or nor with a destination index outside [0,7] fails: no
\* register is written or created, and the call stops at that line.
C12_BadDestinationFails ==
    BadDestination(last) =>
        /\ "stopOnException" \in events
        /\ regs = last.regs
        /\ mode = "idle"
        /\ currentLine = last.ln

\* the symbolic operand of an executed beq, lw or sw names no label
UnresolvedOperand(x) ==
    /\ IsOp(x, "beq") \/ IsOp(x, "lw") \/ IsOp(x, "sw")
    /\ ~IsNumeric(Operand(x, 3))
    /\ ~Declared(prog, Operand(x, 3))

\* C13: a beq, lw or sw whose symbolic operand names no declared label
\* fails: registers, memory and program counter are as before the line and
\* the call stops at it.
C13_UnresolvedLabelFails ==
    UnresolvedOperand(last) =>
        /\ "stopOnException" \in events
        /\ regs = last.regs
        /\ mem = last.mem
        /\ mode = "idle"
        /\ currentLine = last.ln

\* the line at the program counter matches none of the four shapes
NoShape ==
    /\ HasLine(currentLine)
    /\ ~R_INST_REGEX(getLine(currentLine))
    /\ ~J_INST_REGEX(getLine(currentLine))
    /\ ~O_INST_REGEX(getLine(currentLine))
    /\ ~FILL_REGEX(getLine(currentLine))
\* an instruction breakpoint lies on the units of the line still to be passed
InstructionStop == InstructionLoop(instruction, At(ends, currentLine)).hit
\* one turn of continue()'s loop, or a step() by line
LineCall == runLine \/ step(FALSE)
\* the call sends stopOnException and returns; counter, registers and memory
\* are as before
FailsInPlace ==
    /\ "stopOnException" \in events'
    /\ mode' = "idle"
    /\ currentLine' = currentLine
    /\ regs' = regs
    /\ mem' = mem

C15_ExceptionEndsCall ==
    [][runLine =>
          /\ "stopOnException" \in events => last' = last /\ prev' = prev
          /\ "stopOnException" \in events' \ events =>
                mode' = "idle" /\ currentLine' = currentLine]_vars

\* C16: no continue() or step() call ends by throwing a host error; a taken
\* beq or a jalr whose target line is negative or past the last line ends
\* the call with stopOnException or with end.
C16_NoHostError == ~threw

\* a turn of continue()'s loop executes the line ln
RunExecutes(ln) == runLine /\ last' # last /\ last'.ln = ln
\* a source breakpoint targets the line ln
BreakpointAt(ln) == \E i \in 1 .. Len(breakPoints) : I(breakPoints[i].line) = ln

\* C17: during a run no line a source breakpoint targets is executed unless
\* the controller has stopped at that line with stopOnBreakpoint before; the
\* first line is no exception.
C17_BreakpointStopsRun ==
    [][\A l \in 0 .. Len(prog) - 1 :
          RunExecutes(I(l)) /\ BreakpointAt(I(l)) =>
              <<"stopOnBreakpoint", I(l)>> \in stops]_vars

\* C18: when the instruction breakpoints contain the start address of a line
\* (address 0 for the first line), the run stops with
\* stopOnInstructionBreakpoint at that address before the line is executed.
C18_InstructionBreakpointStopsRun ==
    [][\A l \in 0 .. Len(prog) - 1 :
          RunExecutes(I(l)) /\ At(starts, I(l)) \in instructionBreakpoints =>
              <<"stopOnInstructionBreakpoint", At(starts, I(l))>> \in stops]_vars

\* the breakpoint setBreakPoint has pushed and returns
Pushed == breakPoints'[Len(breakPoints')]
\* the line a breakpoint asked for on line l of the loaded program is put on
AdjustedLine(l) ==
    IF sourceLines'[l + 1] = Blank \/ sourceLines'[l + 1].label \in PlusLabels
    THEN l + 1
    ELSE IF sourceLines'[l + 1].label \in MinusLabels THEN l - 1
    ELSE l
Lazy(l) == HasToken(sourceLines'[l + 1], LazyTokens)

\* C19: setBreakPoint on a line l of the loaded program yields a breakpoint
\* on line l + 1 if the text of l is empty or begins with '+', on l - 1 if it
\* begins with '-', and on l otherwise; the breakpoint is verified, and
\* breakpointValidated is sent for it, exactly when the text of l does not
\* contain 'lazy'.
C19_SetBreakpointAdjusts ==
    [][\A l \in 0 .. Len(prog) - 1 :
          setBreakPoint(l) =>
              /\ Pushed.line = AdjustedLine(l)
              /\ Pushed.verified = ~Lazy(l)
              /\ <<"breakpointValidated", I(Pushed.id)>> \in stops' <=> ~Lazy(l)]_vars

\* the calls that run verifyBreakpoints again over the breakpoints of the file
Reverifies ==
    \/ startLoaded /\ pending.debug /\ ~pending.stopOnEntry
    \/ \E l \in 0 .. Len(prog) : setBreakPoint(l)

\* C20: verification is idempotent: when start() or a later setBreakPoint
\* runs it again, every breakpoint verified before, lazy or not, keeps its
\* line and its verified flag.
C20_VerificationIdempotent ==
    [][Reverifies =>
          \A i \in 1 .. Len(breakPoints) :
              /\ breakPoints'[i].line = breakPoints[i].line
              /\ breakPoints'[i].verified = breakPoints[i].verified]_vars

\* C21: in every reachable state each verified source breakpoint is on a
\* line of the loaded program whose text is not empty.
C21_VerifiedIsStoppable ==
    \A i \in 1 .. Len(breakPoints) :
        breakPoints[i].verified =>
            /\ HasLine(I(breakPoints[i].line))
            /\ LineLength(getLine(I(breakPoints[i].line))) > 0

\* the access types name was registered with since the last clear
Registered(name) == IF name \in DOMAIN registered THEN registered[name] ELSE {}

\* C22: a watched name is recorded as read-write if since the last clear it
\* was registered with read-write or with two differing access types, and
\* with its single registered type otherwise; a name is watched exactly when
\* it was registered since the last clear, so after a clear none is.
C22_WatchModes ==
    /\ DOMAIN breakAddresses = DOMAIN registered
    /\ \A name \in DOMAIN breakAddresses :
          breakAddresses[name] =
              IF "readWrite" \in Registered(name) \/ Cardinality(Registered(name)) > 1
              THEN "read write"
              ELSE CHOOSE accessType \in Registered(name) : TRUE

\* x has been registered with read and with write and is recorded as
\* read-write after the last of the calls
C22_Witness ==
    /\ Registered("x") = {"read", "write"}
    /\ breakAddresses["x"] = "read write"
    /\ "mem" \notin DOMAIN breakAddresses
    /\ calls = MaxWatchCalls

\* the lines of the program that are not empty
NonEmptyLines == {l \in 0 .. Len(prog) - 1 : prog[l + 1] # Blank}
LastNonEmpty == CHOOSE l \in NonEmptyLines : \A k \in NonEmptyLines : k <= l
\* the first non-empty line after line l
NonEmptyAfter(l) ==
    CHOOSE k \in NonEmptyLines :
        k > l /\ \A j \in NonEmptyLines : j > l => k <= j
LastLine == IF last.ln = undefined THEN -1 ELSE AsInt(last.ln)

\* C23: a run, with no breakpoints, of a program whose non-empty lines are
\* instructions with no halt and no taken transfer terminates with an end
\* event and no stopOnException, having executed every non-empty line once
\* and in source order, whether or not the file has empty lines.
C23_PlainRunEnds ==
    /\ <>(/\ mode = "idle"
          /\ "end" \in events
          /\ "stopOnException" \notin events
          /\ last.ln = I(LastNonEmpty))
    /\ [][runLine /\ last' # last =>
             /\ \E k \in NonEmptyLines : k > LastLine
             /\ last'.ln = I(NonEmptyAfter(LastLine))]_vars

\* C24: a step() in line mode that reports stopOnStep has executed exactly
\* one line, the one at the program counter, and leaves the program counter
\* on a line that is not empty: the empty lines in between, trailing ones
\* included, are skipped.
C24_StepSkipsEmptyLines ==
    [][step(FALSE) /\ "stopOnStep" \in events' =>
          /\ last'.ln = currentLine /\ prev' = last
          /\ HasLine(currentLine')
          /\ LineLength(getLine(currentLine')) > 0]_vars

\* C25: the listener receives a note only in a step of the event loop, taken
\* while no engine call is running and changing nothing of the engine: the
\* state change that caused the note is complete; and it receives the notes
\* in the order in which they were sent.
C25_DeliveryIsQueued ==
    [][received' # received =>
          /\ mode # "running"
          /\ UNCHANGED <<regs, mem, currentLine, instruction, breakPoints,
                         events, mode, last>>
          /\ timers # <<>>
          /\ received'.note = Head(timers)
          /\ timers' = Tail(timers)]_vars

\* the listener has received the end event of a run that has returned while
\* later notes are still queued
C25_Witness ==
    /\ received.note = Note("end")
    /\ mode = "idle"
    /\ timers # <<>>
    /\ last.ln # undefined

\* the number of tokens of a line up to its last required argument
Required(line) ==
    IF R_INST_REGEX(line) THEN 4
    ELSE IF J_INST_REGEX(line) THEN 3
    ELSE IF FILL_REGEX(line) THEN 2
    ELSE 1
\* the line without its free-form comment
Stripped(line) == [line EXCEPT !.toks = SubSeq(@, 1, Required(line))]
\* what the execution of a line leaves, output texts aside
Outcome(e) ==
    [regs |-> e.regs, mem |-> e.mem, extras |-> e.extras,
     currentLine |-> e.currentLine, ret |-> e.ret, threw |-> e.threw,
     events |-> e.events \ {"output"}]

\* C26: the comment of a line has no effect on execution: in every reachable
\* state the line at the program counter leaves the same registers, memory,
\* variables, program counter and stop events as the same line without its
\* comment, so two programs that differ in comments only run alike.
C26_CommentsIgnored ==
    HasLine(currentLine) /\ Decodes(getLine(currentLine)) =>
        Outcome(Decode(Fresh, currentLine, getLine(currentLine)))
            = Outcome(Decode(Fresh, currentLine, Stripped(getLine(currentLine))))

\* the line at the program counter is a halt
AtHalt ==
    /\ HasLine(currentLine)
    /\ O_INST_REGEX(getLine(currentLine))
    /\ getLine(currentLine).toks[1] = "halt"
\* the notes the step has queued
Appended == SubSeq(timers', Len(timers) + 1, Len(timers'))
IsRegNote(note) == note.reg >= 0
\* the eight register outputs of a halt executed now
Dump == [i \in 1 .. NumRegs |-> RegNote(i - 1, regs[I(i - 1)])]

\* C27: executing halt sends exactly eight output notes with the values of
\* the registers 0 .. 7 in that order, then end, and the listener receives
\* them in that order: after the note of register i it is the note of
\* register i + 1, or end after register 7, that is delivered next.
C27_HaltDumpsRegisters ==
    /\ [][LineCall /\ AtHalt /\ ~InstructionStop =>
             /\ SelectSeq(Appended, IsRegNote) = Dump
             /\ \E k \in 1 .. Len(Appended) - NumRegs :
                   SubSeq(Appended, k, k + NumRegs) = Dump \o <<Note("end")>>]_vars
    /\ [](IsRegNote(received.note) =>
             /\ timers # <<>>
             /\ IF received.note.reg = NumRegs - 1
                THEN Head(timers) = Note("end")
                ELSE Head(timers).reg = received.note.reg + 1)

\* the listener has received the note of register 1, which holds -1
C27_Witness ==
    /\ received.note = RegNote(1, I(-1))
    /\ Len(timers) >= NumRegs - 1
    /\ halted

\* C28: when the combination program with n = 4 and r = 2, run without
\* breakpoints, has executed the halt of its main part (line 4), register 3
\* is C(4, 2) = 6, the stack pointer register 5 is back at 0 and the end
\* notification has been sent.
C28_CombinationResult ==
    (halted /\ last.ln = I(4)) =>
        /\ "end" \in events
        /\ Reg(3) = I(6)
        /\ Reg(5) = I(0)

\* C29: the register file is always exactly the registers 0 to 7: no
\* instruction creates a register with another index.
C29_EightRegisters == DOMAIN regs = RegKeys

\* C30: an instruction that reads a register with an index outside 0..7 (r1
\* or r2 of add, nor, beq and sw, r1 of lw and of jalr) makes the call send
\* stopOnException.
ReadsMissing ==
    LET line == getLine(currentLine)
        t == line.toks
    IN  /\ HasLine(currentLine)
        /\ \/ /\ R_INST_REGEX(line)
              /\ \/ ~IsRegister(parseInt(t[2]))
                 \/ t[1] # "lw" /\ ~IsRegister(parseInt(t[3]))
           \/ /\ ~R_INST_REGEX(line)
              /\ J_INST_REGEX(line)
              /\ ~IsRegister(parseInt(t[2]))
C30_MissingRegisterFails ==
    [][(LineCall /\ ReadsMissing /\ ~InstructionStop) =>
          "stopOnException" \in events']_vars

\* start() is past its load, in debug mode with stopOnEntry = true
EntryStart == startLoaded /\ pending.debug /\ pending.stopOnEntry
\* C31: start() in debug mode with stopOnEntry = true executes no line
\* (registers and memory stay as the load left them), sends stopOnEntry and
\* leaves the program counter on the first non-empty line, whatever source
\* breakpoints are set.
C31_EntryStopsAtFirstLine ==
    [][EntryStart =>
          /\ last' = last
          /\ regs' = regs
          /\ mem' = mem
          /\ "stopOnEntry" \in events'
          /\ currentLine' = I(NonEmptyAfter(-1))]_vars

\* C32: when a run or a step stops at a line because of a source breakpoint,
\* no breakpoint on that line is left unverified, and a breakpointValidated
\* notification is sent for each breakpoint that was unverified.
C32_StopVerifiesBreakpoints ==
    [][(LineCall /\ "stopOnBreakpoint" \in events') =>
          \A i \in 1 .. Len(breakPoints') :
              I(breakPoints'[i].line) = currentLine' =>
                  /\ breakPoints'[i].verified
                  /\ ~breakPoints[i].verified =>
                        <<"breakpointValidated", I(breakPoints[i].id)>> \in stops']_vars

\* every .fill operand of the program is a literal
LiteralFills ==
    \A l \in 1 .. Len(prog) : FILL_REGEX(prog[l]) => IsNumeric(prog[l].toks[2])
\* C33: after the load of a program whose .fill operands are literals, the
\* cell at the line of every .fill directive (labelled, indented, or with a
\* label declared before) holds the directive's value, and every other cell
\* of the program's lines is as the constructor left it.
C33_FillWritesOwnLine ==
    (sourceFile # "" /\ ~HasExecuted(last) /\ LiteralFills) =>
        \A l \in 1 .. Len(prog) :
            MemRead(mem, I(l - 1)) =
                IF FILL_REGEX(prog[l]) THEN parseInt(prog[l].toks[2]) ELSE I(0)

\* the line at the program counter is `jalr r r` with r in 0..7 and no text
\* after it, and the next line exists and is not empty
SelfJalr ==
    LET line == getLine(currentLine)
    IN  /\ HasLine(currentLine)
        /\ J_INST_REGEX(line) /\ ~R_INST_REGEX(line)
        /\ Len(line.toks) = 3
        /\ line.toks[2] = line.toks[3]
        /\ IsRegister(parseInt(line.toks[2]))
        /\ HasLine(Plus1(currentLine))
        /\ LineLength(getLine(Plus1(currentLine))) > 0
C35_ValuesAre32Bit ==
    /\ \A k \in DOMAIN regs : Is32Bit(regs[k])
    /\ mem.isArray => \A a \in DOMAIN mem.cells : Is32Bit(mem.cells[a])

\* C36: whenever a start(), continue() or step() call has returned, the
\* program counter is a line index of the program.
C36_CounterInProgram == mode = "idle" => HasLine(currentLine)

\* the notifications that report why a call stopped
StopEvents ==
    {"stopOnStep", "stopOnBreakpoint", "stopOnInstructionBreakpoint",
     "stopOnDataBreakpoint", "stopOnException", "end"}
\* C37: a step() call that returns has sent exactly one kind of stop
\* notification: never two of them and never none.
C37_OneStopPerCall ==
    [][((\E byInstruction \in BOOLEAN : step(byInstruction)) /\ ~threw') =>
          Cardinality(events' \cap StopEvents) = 1]_vars

\* C38: while the read begun by a setBreakPoint() call is pending, a start()
\* for the same file executes no line and reports no exception: nothing runs
\* before the lines, labels and memory image are loaded.
C38_NothingRunsBeforeLoad ==
    reading => ~HasExecuted(last) /\ "stopOnException" \notin events

\* C39: a setBreakPoint() call made while the read begun by an earlier one is
\* pending yields the (line, verified) it would yield after that call had
\* completed: the ones verification gives on the loaded lines.
C39_InFlightCallsAsInSequence ==
    [][\A line \in 0 .. Len(prog) - 1 :
          (reading /\ setBreakPoint(line)) =>
              breakPoints'[Len(breakPoints')] =
                  verifyOne([id |-> breakpointId, line |-> line,
                             verified |-> FALSE], prog)]_vars

\* C40: register 0 holds 0 in every reachable state.
C40_RegisterZero == Reg(0) = I(0)

=============================================================================
